---- MODULE Spec2Model ----
(***************************************************************************)
(* Medicina.py: SistemaCitasMedicas, the appointment-optimisation engine,  *)
(* and the handlers of InterfazModerna that write engine attributes.       *)
(*                                                                         *)
(* Number representation.  The program computes in binary floating point;  *)
(* the model computes the same quantities in exact integer arithmetic:     *)
(*   - a demand is held in twentieths of a patient (the hybrid demand      *)
(*     0.7*int + 0.3*quadratic is always a multiple of 0.05);              *)
(*   - a waiting time is held in millionths of an hour, truncated;         *)
(*   - a proportion or rate is held in hundredths, a complexity factor in  *)
(*     tenths;                                                             *)
(*   - float('inf') is the value INF, larger than every finite wait.       *)
(***************************************************************************)
EXTENDS Integers, Sequences, FiniteSets, TLC

(***************************************************************************)
(* Bounds of the explored inputs.                                          *)
(***************************************************************************)
MaxMedicos == 12
MaxDemanda == 12

(***************************************************************************)
(* SistemaCitasMedicas.__init__                                            *)
(***************************************************************************)
a_cuadratica2 == -1          \* a_cuadratica = -0.5, doubled
b_cuadratica == 20
c_cuadratica == -25
k_inversa == 120
medicos_disponibles_inicial == 4318
ausentismo_inicial == 35     \* ausentismo_pacientes = 0.35
deficit_personal == 22       \* 0.22
eficiencia_actual == 65      \* 0.65
capacidad_medico_hora == 8
hora_pico_modelo_original == 20
INF == 2147483647            \* float('inf')

patrones_demanda_real ==
    LET t == <<25, 45, 65, 85, 75, 60, 50, 55, 70, 80, 90, 85, 70, 55, 40, 30, 20>>
    IN  [h \in 6..22 |-> t[h - 5]]

\* proporcion in hundredths, factor_complejidad in tenths; the dictionary
\* iterates in insertion order.
tipos_consulta ==
    [emergencia    |-> [proporcion |-> 25, factor_complejidad |-> 15],
     especializada |-> [proporcion |-> 35, factor_complejidad |-> 12],
     general       |-> [proporcion |-> 40, factor_complejidad |-> 10]]

orden_tipos == <<"emergencia", "especializada", "general">>

Tipos == {"emergencia", "especializada", "general"}

(***************************************************************************)
(* Arithmetic helpers.                                                     *)
(***************************************************************************)
Abs(x) == IF x < 0 THEN -x ELSE x
Min(x, y) == IF x < y THEN x ELSE y
Max(x, y) == IF x > y THEN x ELSE y

\* floor(a * 10^digitos / b) by long division, a >= 0, b > 0.
RECURSIVE DivLarga(_, _, _, _)
DivLarga(q, r, b, digitos) ==
    IF digitos = 0 THEN q
    ELSE DivLarga(q * 10 + (r * 10) \div b, (r * 10) % b, b, digitos - 1)

Cociente(a, b, digitos) == DivLarga(a \div b, a % b, b, digitos)

\* floor(x * y / 10^6) for x, y in millionths, without leaving 32 bits.
MulFijo(x, y) ==
    LET xh == x \div 1000
        xl == x % 1000
        yh == y \div 1000
        yl == y % 1000
    IN  xh * yh + (xh * yl + xl * yh + (xl * yl) \div 1000) \div 1000

Cuadrado(y) == MulFijo(y, y)

Potencia5(y) == MulFijo(Cuadrado(Cuadrado(y)), y)

Potencia9(y) == MulFijo(Cuadrado(Cuadrado(Cuadrado(y))), y)

\* the largest y in lo..hi (millionths) with y^5 <= x
RECURSIVE Raiz5(_, _, _)
Raiz5(x, lo, hi) ==
    IF lo >= hi THEN lo
    ELSE LET mid == (lo + hi + 1) \div 2
         IN  IF Potencia5(mid) <= x THEN Raiz5(x, mid, hi)
             ELSE Raiz5(x, lo, mid - 1)

\* sobrecarga ** 1.8 = (sobrecarga ** 0.2) ** 9, for 1 < sobrecarga < 4
Potencia18(x) == Potencia9(Raiz5(x, 1000000, 1320000))

\* round(x, 2) of a wait in millionths, in hundredths of an hour
Redondear2(x) == IF x = INF THEN INF ELSE (x + 5000) \div 10000

\* round(100 * num / den, 1) in tenths, ties to even
Redondear1Porcentaje(num, den) ==
    LET q == (num * 1000) \div den
        r == (num * 1000) % den
    IN  IF 2 * r > den THEN q + 1
        ELSE IF 2 * r < den THEN q
        ELSE IF q % 2 = 0 THEN q ELSE q + 1

(***************************************************************************)
(* demanda_realista(hora, dia_semana, es_festivo): an integer number of    *)
(* patients.  factor_dia is in hundredths.                                 *)
(***************************************************************************)
DiasSemana == {"ninguno", "lunes", "martes", "miercoles", "viernes", "sábado", "domingo"}

factor_dia(dia_semana) ==
    IF dia_semana \in {"lunes", "martes"} THEN 125
    ELSE IF dia_semana = "viernes" THEN 110
    ELSE IF dia_semana \in {"sábado", "domingo"} THEN 75
    ELSE 100

\* Variant: the result is int(demanda_con_ausentismo), without max(1, ...).
demanda_realista_sin_piso(hora, dia_semana, es_festivo, ausentismo) ==
    ((IF hora \in DOMAIN patrones_demanda_real THEN patrones_demanda_real[hora] ELSE 20)
        * (IF es_festivo THEN factor_dia(dia_semana) ELSE 2 * factor_dia(dia_semana))
        * (100 - ausentismo)) \div 20000

demanda_realista(hora, dia_semana, es_festivo, ausentismo) ==
    LET demanda_base == IF hora \in DOMAIN patrones_demanda_real
                        THEN patrones_demanda_real[hora] ELSE 20
        \* factor_dia *= 0.5 on a holiday: in two-hundredths
        factor200 == IF es_festivo THEN factor_dia(dia_semana)
                     ELSE 2 * factor_dia(dia_semana)
        demanda_con_ausentismo ==
            (demanda_base * factor200 * (100 - ausentismo)) \div 20000
    IN  Max(1, demanda_con_ausentismo)

(***************************************************************************)
(* demanda_cuadratica(hora): the hybrid demand, in twentieths of a patient *)
(***************************************************************************)
demanda_cuadratica(hora, ausentismo) ==
    LET \* twice demanda_original
        demanda_original2 == a_cuadratica2 * hora * hora
                             + 2 * b_cuadratica * hora + 2 * c_cuadratica
        demanda_real == demanda_realista(hora, "ninguno", FALSE, ausentismo)
        \* 0.7 * real + 0.3 * max(0, original), in twentieths
        demanda_final == 14 * demanda_real + 3 * Max(0, demanda_original2)
    IN  Max(0, demanda_final)

(***************************************************************************)
(* tiempo_espera_realista(num_medicos, demanda, tipo_consulta)             *)
(* demanda in twentieths; the result in millionths of an hour.             *)
(***************************************************************************)
factor_complejidad(tipo_consulta) ==
    IF tipo_consulta \in DOMAIN tipos_consulta
    THEN tipos_consulta[tipo_consulta].factor_complejidad
    ELSE 10

\* min(12.0, sobrecarga ** 1.8); 4 ** 1.8 > 12
TiempoSaturado(sobrecarga) ==
    IF sobrecarga >= 4000000 THEN 12000000
    ELSE Min(12000000, Potencia18(sobrecarga))

\* tiempo_base from medicos_efectivos (in hundredths), and capacidad_real and
\* carga = demanda * factor_complejidad (both times 10^4)
TiempoBase(medicos_efectivos, capacidad_real, carga) ==
    IF capacidad_real >= carga
    THEN IF 20 * carga < 19 * capacidad_real       \* utilizacion < 0.95
         THEN \* (utilizacion / (1 - utilizacion)) / medicos_efectivos
              Cociente(carga, capacidad_real - carga, 8) \div medicos_efectivos
         ELSE 6000000
    ELSE TiempoSaturado(Cociente(carga, capacidad_real, 6))

\* Variant: no staff yields the 12-hour cap instead of float('inf').
tiempo_espera_realista_tope(num_medicos, demanda, tipo_consulta) ==
    IF num_medicos <= 0 THEN 12000000
    ELSE Max(100000,
             TiempoBase(num_medicos * (100 - deficit_personal),
                        num_medicos * (100 - deficit_personal)
                            * capacidad_medico_hora * eficiencia_actual,
                        50 * demanda * factor_complejidad(tipo_consulta)))

tiempo_espera_realista(num_medicos, demanda, tipo_consulta) ==
    IF num_medicos <= 0 THEN INF
    ELSE Max(100000,
             TiempoBase(num_medicos * (100 - deficit_personal),
                        num_medicos * (100 - deficit_personal)
                            * capacidad_medico_hora * eficiencia_actual,
                        50 * demanda * factor_complejidad(tipo_consulta)))

(***************************************************************************)
(* tiempo_espera_inverso(num_medicos), in millionths of an hour            *)
(***************************************************************************)
\* min(12.0, 0.6 * tiempo_realista + 0.4 * tiempo_original)
TiempoHibrido(tiempo_realista, tiempo_original) ==
    Min(12000000, (6 * tiempo_realista + 4 * tiempo_original) \div 10)

tiempo_espera_inverso(num_medicos) ==
    IF num_medicos <= 0 THEN INF
    ELSE TiempoHibrido(tiempo_espera_realista(num_medicos, 20 * 50, "general"),
                       (k_inversa * 1000000) \div num_medicos)

(***************************************************************************)
(* calcular_medicos_optimos_realista(demanda, tiempo_objetivo, tipo)       *)
(***************************************************************************)
\* Buscar is the for loop from candidate `medicos` on; Paso is one pass of its
\* body, given tiempo_calculado for that candidate.
RECURSIVE Buscar(_, _, _, _, _, _, _)
RECURSIVE Paso(_, _, _, _, _, _, _, _)
Paso(tiempo_calculado, medicos, limite, mejor_medicos, mejor_diferencia, demanda, tiempo_objetivo, tipo_consulta) ==
    LET diferencia == Abs(tiempo_calculado - tiempo_objetivo)
        mejora == diferencia < mejor_diferencia
    IN  IF tiempo_calculado <= tiempo_objetivo
        THEN IF mejora THEN medicos ELSE mejor_medicos
        ELSE Buscar(medicos + 1, limite,
                    IF mejora THEN medicos ELSE mejor_medicos,
                    IF mejora THEN diferencia ELSE mejor_diferencia,
                    demanda, tiempo_objetivo, tipo_consulta)

Buscar(medicos, limite, mejor_medicos, mejor_diferencia, demanda, tiempo_objetivo, tipo_consulta) ==
    IF medicos >= limite THEN mejor_medicos
    ELSE Paso(tiempo_espera_realista(medicos, demanda, tipo_consulta),
              medicos, limite, mejor_medicos, mejor_diferencia,
              demanda, tiempo_objetivo, tipo_consulta)

\* Variant of the loop: a candidate as close to the target as the best so far
\* replaces it (diferencia <= mejor_diferencia).
RECURSIVE Buscar_ultimo(_, _, _, _, _, _, _)
RECURSIVE Paso_ultimo(_, _, _, _, _, _, _, _)
Paso_ultimo(tiempo_calculado, medicos, limite, mejor_medicos, mejor_diferencia, demanda, tiempo_objetivo, tipo_consulta) ==
    LET diferencia == Abs(tiempo_calculado - tiempo_objetivo)
        mejora == diferencia <= mejor_diferencia
    IN  IF tiempo_calculado <= tiempo_objetivo
        THEN IF mejora THEN medicos ELSE mejor_medicos
        ELSE Buscar_ultimo(medicos + 1, limite,
                           IF mejora THEN medicos ELSE mejor_medicos,
                           IF mejora THEN diferencia ELSE mejor_diferencia,
                           demanda, tiempo_objetivo, tipo_consulta)

Buscar_ultimo(medicos, limite, mejor_medicos, mejor_diferencia, demanda, tiempo_objetivo, tipo_consulta) ==
    IF medicos >= limite THEN mejor_medicos
    ELSE Paso_ultimo(tiempo_espera_realista(medicos, demanda, tipo_consulta),
                     medicos, limite, mejor_medicos, mejor_diferencia,
                     demanda, tiempo_objetivo, tipo_consulta)

\* Variant: the end of the range is itself a candidate.
LimiteBusqueda_incluido(demanda) == Min(200, (3 * demanda) \div 20) + 1

\* min(200, int(demanda * 3)), the exclusive end of the range
LimiteBusqueda(demanda) == Min(200, (3 * demanda) \div 20)

\* Variant: the scan starts at range(2, ...), candidate 1 is never tried.
calcular_medicos_optimos_desde_2(demanda, tiempo_objetivo, tipo_consulta) ==
    Buscar(2, LimiteBusqueda(demanda), 1, INF, demanda, tiempo_objetivo, tipo_consulta)

\* Variant: mejor_diferencia starts at 0, so no candidate ever improves on it.
calcular_medicos_optimos_diferencia_0(demanda, tiempo_objetivo, tipo_consulta) ==
    Buscar(1, LimiteBusqueda(demanda), 1, 0, demanda, tiempo_objetivo, tipo_consulta)

\* Variant: one more than the best candidate is returned.
calcular_medicos_optimos_mas_1(demanda, tiempo_objetivo, tipo_consulta) ==
    Buscar(1, LimiteBusqueda(demanda), 1, INF, demanda, tiempo_objetivo, tipo_consulta) + 1

\* Variant: among equally close candidates the last one scanned is returned.
calcular_medicos_optimos_ultimo_empate(demanda, tiempo_objetivo, tipo_consulta) ==
    Buscar_ultimo(1, LimiteBusqueda(demanda), 1, INF, demanda, tiempo_objetivo, tipo_consulta)

calcular_medicos_optimos_realista(demanda, tiempo_objetivo, tipo_consulta) ==
    Buscar(1, LimiteBusqueda(demanda), 1, INF, demanda, tiempo_objetivo, tipo_consulta)

(***************************************************************************)
(* calcular_medicos_necesarios(tiempo_objetivo)                            *)
(***************************************************************************)
\* max(1, int(0.7 * medicos_mejorado + 0.3 * k_inversa / tiempo_objetivo)):
\* in tenths, 7 * medicos_mejorado + 3 * k_inversa / tiempo_objetivo
MedicosPonderados(medicos_mejorado, tiempo_objetivo) ==
    Max(1, (7 * medicos_mejorado + (3 * k_inversa * 1000000) \div tiempo_objetivo) \div 10)

calcular_medicos_necesarios(tiempo_objetivo) ==
    IF tiempo_objetivo <= 0 THEN INF
    ELSE MedicosPonderados(
             calcular_medicos_optimos_realista(20 * 50, tiempo_objetivo, "general"),
             tiempo_objetivo)

(***************************************************************************)
(* optimizar_distribucion_diaria                                           *)
(***************************************************************************)
Horas == 6..22

\* One pass of the loop over tipos_consulta.items(): the share of the hour's
\* demand, and for a positive share the searched staff and its wait.
EntradaTipo(tipo, demanda_tipo, medicos_tipo) ==
    [demanda |-> demanda_tipo,
     medicos |-> medicos_tipo,
     tiempo_espera |-> tiempo_espera_realista(medicos_tipo, 20 * demanda_tipo, tipo)]

\* Variant: the share of a type is rounded up instead of truncated.
AsignacionTipo_redondeo_arriba(tipo, demanda_total) ==
    LET demanda_tipo == (demanda_total * tipos_consulta[tipo].proporcion + 1999) \div 2000
    IN  IF demanda_tipo > 0
        THEN EntradaTipo(tipo, demanda_tipo,
                         calcular_medicos_optimos_realista(20 * demanda_tipo, 2000000, tipo))
        ELSE [demanda |-> 0, medicos |-> 0, tiempo_espera |-> 0]

AsignacionTipo(tipo, demanda_total) ==
    LET demanda_tipo == (demanda_total * tipos_consulta[tipo].proporcion) \div 2000
    IN  IF demanda_tipo > 0
        THEN EntradaTipo(tipo, demanda_tipo,
                         calcular_medicos_optimos_realista(20 * demanda_tipo, 2000000, tipo))
        ELSE [demanda |-> 0, medicos |-> 0, tiempo_espera |-> 0]

\* The tail of the loop body: the cap adjustment and the appended record.
\* medicos_requeridos is medicos_totales as summed over the types, ponderado
\* the sum of tiempo_tipo * proporcion (in 10^-8 hours).
\* Variant: the cap adjustment is missing, the summed requirement is recorded.
RegistrarHora_sin_ajuste(hora, demanda_total, distribucion_tipos, medicos_requeridos, ponderado, medicos_disponibles) ==
    [hora |-> hora,
     demanda_predicha |-> demanda_total \div 20,
     medicos_asignados |-> medicos_requeridos,
     tiempo_espera |-> (ponderado + 500000) \div 1000000,
     distribucion_tipos |-> distribucion_tipos,
     utilizacion_recursos |-> Redondear1Porcentaje(medicos_requeridos, medicos_disponibles),
     es_factible |-> medicos_requeridos <= medicos_disponibles]

\* Variant: every hour is assigned the whole pool.
RegistrarHora_todo_el_tope(hora, demanda_total, distribucion_tipos, medicos_requeridos, ponderado, medicos_disponibles) ==
    [hora |-> hora,
     demanda_predicha |-> demanda_total \div 20,
     medicos_asignados |-> medicos_disponibles,
     tiempo_espera |-> (ponderado + 500000) \div 1000000,
     distribucion_tipos |-> distribucion_tipos,
     utilizacion_recursos |-> Redondear1Porcentaje(medicos_disponibles, medicos_disponibles),
     es_factible |-> TRUE]

\* Variant: the wait is not recomputed for the capped count, the weighted
\* mean over the types is recorded in every hour.
RegistrarHora_sin_recalculo(hora, demanda_total, distribucion_tipos, medicos_requeridos, ponderado, medicos_disponibles) ==
    [hora |-> hora,
     demanda_predicha |-> demanda_total \div 20,
     medicos_asignados |-> Min(medicos_requeridos, medicos_disponibles),
     tiempo_espera |-> (ponderado + 500000) \div 1000000,
     distribucion_tipos |-> distribucion_tipos,
     utilizacion_recursos |-> Redondear1Porcentaje(Min(medicos_requeridos, medicos_disponibles),
                                                   medicos_disponibles),
     es_factible |-> TRUE]

RegistrarHora(hora, demanda_total, distribucion_tipos, medicos_requeridos, ponderado, medicos_disponibles) ==
    LET excede == medicos_requeridos > medicos_disponibles
        medicos_totales == IF excede THEN medicos_disponibles ELSE medicos_requeridos
        tiempo_espera ==
            IF excede
            THEN Redondear2(tiempo_espera_realista(medicos_totales, demanda_total, "general"))
            ELSE (ponderado + 500000) \div 1000000
    IN  [hora |-> hora,
         demanda_predicha |-> demanda_total \div 20,
         medicos_asignados |-> Min(medicos_totales, medicos_disponibles),
         tiempo_espera |-> tiempo_espera,
         distribucion_tipos |-> distribucion_tipos,
         utilizacion_recursos |-> Redondear1Porcentaje(medicos_totales, medicos_disponibles),
         es_factible |-> medicos_totales <= medicos_disponibles]

\* The loop over the types, then the tail: asignacion holds the pass of each
\* type, distribucion_tipos keeps the types of positive demand.
AcumularTipos(hora, demanda_total, asignacion, medicos_disponibles) ==
    RegistrarHora(hora, demanda_total,
                  [t \in {u \in Tipos : asignacion[u].demanda > 0} |-> asignacion[t]],
                  asignacion[orden_tipos[1]].medicos
                      + asignacion[orden_tipos[2]].medicos
                      + asignacion[orden_tipos[3]].medicos,
                  asignacion[orden_tipos[1]].tiempo_espera * tipos_consulta[orden_tipos[1]].proporcion
                      + asignacion[orden_tipos[2]].tiempo_espera * tipos_consulta[orden_tipos[2]].proporcion
                      + asignacion[orden_tipos[3]].tiempo_espera * tipos_consulta[orden_tipos[3]].proporcion,
                  medicos_disponibles)

RepartirDemanda(hora, demanda_total, medicos_disponibles) ==
    AcumularTipos(hora, demanda_total,
                  [t \in Tipos |-> AsignacionTipo(t, demanda_total)],
                  medicos_disponibles)

PlanHora(hora, ausentismo, medicos_disponibles) ==
    RepartirDemanda(hora, Max(0, demanda_cuadratica(hora, ausentismo)), medicos_disponibles)

\* medicos_totales / self.medicos_disponibles raises ZeroDivisionError in the
\* first hour when the cap is 0 and no plan is returned.
optimizar_falla(medicos_disponibles) == medicos_disponibles = 0

\* Variant: horas = range(6, 22), the last hour is left out.
optimizar_distribucion_hasta_21(ausentismo, medicos_disponibles) ==
    [i \in 1..16 |-> PlanHora(i + 5, ausentismo, medicos_disponibles)]

optimizar_distribucion_diaria(ausentismo, medicos_disponibles) ==
    [i \in 1..17 |-> PlanHora(i + 5, ausentismo, medicos_disponibles)]

(***************************************************************************)
(* generar_reporte_optimizacion: the metrics computed from the plan        *)
(***************************************************************************)
RECURSIVE SumaCampo(_, _, _)
SumaCampo(distribucion, campo, i) ==
    IF i > Len(distribucion) THEN 0
    ELSE distribucion[i][campo] + SumaCampo(distribucion, campo, i + 1)

\* Variant: the first record is taken for the peak.
HoraPicoReal_primera(distribucion) == distribucion[1]

\* max(distribucion, key=demanda_predicha): the first record of maximal demand
HoraPicoReal(distribucion) ==
    LET i == CHOOSE i \in 1..Len(distribucion) :
                 /\ \A j \in 1..Len(distribucion) :
                        distribucion[j].demanda_predicha <= distribucion[i].demanda_predicha
                 /\ \A j \in 1..(i - 1) :
                        distribucion[j].demanda_predicha < distribucion[i].demanda_predicha
    IN  distribucion[i]

\* max([asignados - disponibles for d if asignados > disponibles], default=0)
DeficitMaximo(distribucion, medicos_disponibles) ==
    LET deficits == {distribucion[i].medicos_asignados - medicos_disponibles :
                        i \in {j \in 1..Len(distribucion) :
                                 distribucion[j].medicos_asignados > medicos_disponibles}}
    IN  IF deficits = {} THEN 0
        ELSE CHOOSE d \in deficits : \A e \in deficits : e <= d

\* Variant: counts the hours below full utilization.
HorasFactibles_por_utilizacion(distribucion) ==
    Cardinality({i \in 1..Len(distribucion) : distribucion[i].utilizacion_recursos < 1000})

\* sum([1 for d in distribucion if d['es_factible']])
HorasFactibles(distribucion) ==
    Cardinality({i \in 1..Len(distribucion) : distribucion[i].es_factible})

\* Variant: implementable when no hour is critical.
EsImplementable_sin_criticas(distribucion) ==
    \A i \in 1..Len(distribucion) : distribucion[i].utilizacion_recursos <= 900

\* all([d['es_factible'] for d in distribucion])
EsImplementable(distribucion) ==
    \A i \in 1..Len(distribucion) : distribucion[i].es_factible

Metricas(distribucion, medicos_disponibles) ==
    LET hora_pico_real == HoraPicoReal(distribucion)
        n == Len(distribucion)
    IN  [total_pacientes_diarios |-> SumaCampo(distribucion, "demanda_predicha", 1),
         total_medicos_usados |-> SumaCampo(distribucion, "medicos_asignados", 1),
         hora_pico |-> hora_pico_real.hora,
         demanda_maxima |-> hora_pico_real.demanda_predicha,
         horas_factibles |-> HorasFactibles(distribucion),
         horas_criticas |-> Cardinality({i \in 1..n : distribucion[i].utilizacion_recursos > 900}),
         es_implementable |-> EsImplementable(distribucion),
         deficit_maximo_medicos |-> DeficitMaximo(distribucion, medicos_disponibles),
         diferencia_horas |-> Abs(hora_pico_real.hora - hora_pico_modelo_original),
         patron_demanda_corregido |-> hora_pico_real.hora # hora_pico_modelo_original]

SinMetricas ==
    [total_pacientes_diarios |-> 0, total_medicos_usados |-> 0, hora_pico |-> 0,
     demanda_maxima |-> 0, horas_factibles |-> 0, horas_criticas |-> 0,
     es_implementable |-> FALSE, deficit_maximo_medicos |-> 0,
     diferencia_horas |-> 0, patron_demanda_corregido |-> FALSE]

(***************************************************************************)
(* State: the engine attributes that the program varies, and the call in   *)
(* progress with what it returned.                                         *)
(***************************************************************************)
VARIABLES
    medicos_disponibles,    \* self.medicos_disponibles
    ausentismo_pacientes,   \* self.ausentismo_pacientes, in hundredths
    fase,                   \* "listo": no call in progress; "retornado": a call has returned
    operacion,              \* the function last called
    argumentos,             \* its arguments
    retorno,                \* its numeric return value
    distribucion,           \* the returned plan (or the report's 'distribucion')
    metricas,               \* the report's 'metricas' and 'validacion_empirica'
    error,                  \* the exception raised or the error shown, "" if none
    plan_anterior           \* the plan the caller got from the previous call of
                            \* optimizar_distribucion_diaria, <<>> if none since
                            \* the engine was last written from outside

vars == <<medicos_disponibles, ausentismo_pacientes, fase, operacion, argumentos,
          retorno, distribucion, metricas, error, plan_anterior>>

SinArgumentos == [medicos |-> 0, demanda |-> 0, tipo |-> "general", objetivo |-> 0, hora |-> 0,
                  dia_semana |-> "ninguno", es_festivo |-> FALSE]

\* Staff caps an engine instance is configured with, the default included.
Topes == {0, 10, 15, medicos_disponibles_inicial}

\* Values of the "Ausentismo (%)" control.
ValoresAusentismo == {0, ausentismo_inicial, 50, 100}

Medicos == -1..MaxMedicos
\* whole numbers of patients, for the searches
Demandas == {20 * d : d \in 0..MaxDemanda}
\* demands whose tripled value reaches the 200 of min(200, int(demanda * 3))
DemandasGrandes == {20 * 67, 20 * 80}
\* quarters of a patient, for the wait queries
DemandasEspera == {5 * k : k \in 0..(4 * MaxDemanda)}
ObjetivosFijos == {-1000000, 0, 50000, 1000000, 2000000, 6000000, 12000000}
\* hours queried, the operating window 6..22 and hours around it
HorasConsulta == 4..24
\* targets of calcular_medicos_necesarios: none, negative, and reachable ones
ObjetivosNecesarios == {-1000000, 0, 1000000, 2000000, 6000000, 12000000}

\* Targets of a staffing search: fixed ones, and the wait of a known staffing
\* level of the same demand and type.
Objetivos(demanda, tipo) ==
    ObjetivosFijos \cup {tiempo_espera_realista(s0, demanda, tipo) : s0 \in 1..MaxMedicos}

\* Targets of a search over a large demand.
ObjetivosGrandes == {1000000, 2000000, 6000000, 12000000}

Init ==
    /\ medicos_disponibles \in Topes
    /\ ausentismo_pacientes = ausentismo_inicial
    /\ fase = "listo"
    /\ operacion = "ninguna"
    /\ argumentos = SinArgumentos
    /\ retorno = 0
    /\ distribucion = <<>>
    /\ metricas = SinMetricas
    /\ error = ""
    /\ plan_anterior = <<>>

LlamarTiempoEsperaRealista ==
    /\ fase = "listo"
    /\ \E m \in Medicos, d \in DemandasEspera, t \in Tipos :
          /\ argumentos' = [SinArgumentos EXCEPT !.medicos = m, !.demanda = d, !.tipo = t]
          /\ retorno' = tiempo_espera_realista(m, d, t)
    /\ operacion' = "tiempo_espera_realista"
    /\ fase' = "retornado"
    /\ UNCHANGED <<medicos_disponibles, ausentismo_pacientes, plan_anterior, distribucion, metricas, error>>

LlamarCalcularMedicosOptimosRealista ==
    /\ fase = "listo"
    /\ \E d \in Demandas \cup DemandasGrandes, t \in Tipos :
          \E o \in IF d \in DemandasGrandes THEN ObjetivosGrandes ELSE Objetivos(d, t) :
             /\ argumentos' = [SinArgumentos EXCEPT !.demanda = d, !.tipo = t, !.objetivo = o]
             /\ retorno' = calcular_medicos_optimos_realista(d, o, t)
    /\ operacion' = "calcular_medicos_optimos_realista"
    /\ fase' = "retornado"
    /\ UNCHANGED <<medicos_disponibles, ausentismo_pacientes, plan_anterior, distribucion, metricas, error>>

LlamarDemandaRealista ==
    /\ fase = "listo"
    /\ \E h \in HorasConsulta, dia \in DiasSemana, festivo \in BOOLEAN :
          /\ argumentos' = [SinArgumentos EXCEPT !.hora = h, !.dia_semana = dia,
                                                 !.es_festivo = festivo]
          /\ retorno' = demanda_realista(h, dia, festivo, ausentismo_pacientes)
    /\ operacion' = "demanda_realista"
    /\ fase' = "retornado"
    /\ UNCHANGED <<medicos_disponibles, ausentismo_pacientes, plan_anterior, distribucion, metricas, error>>

\* the returned demand is in twentieths of a patient
LlamarDemandaCuadratica ==
    /\ fase = "listo"
    /\ \E h \in HorasConsulta :
          /\ argumentos' = [SinArgumentos EXCEPT !.hora = h]
          /\ retorno' = demanda_cuadratica(h, ausentismo_pacientes)
    /\ operacion' = "demanda_cuadratica"
    /\ fase' = "retornado"
    /\ UNCHANGED <<medicos_disponibles, ausentismo_pacientes, plan_anterior, distribucion, metricas, error>>

LlamarTiempoEsperaInverso ==
    /\ fase = "listo"
    /\ \E m \in Medicos :
          /\ argumentos' = [SinArgumentos EXCEPT !.medicos = m]
          /\ retorno' = tiempo_espera_inverso(m)
    /\ operacion' = "tiempo_espera_inverso"
    /\ fase' = "retornado"
    /\ UNCHANGED <<medicos_disponibles, ausentismo_pacientes, plan_anterior, distribucion, metricas, error>>

LlamarCalcularMedicosNecesarios ==
    /\ fase = "listo"
    /\ \E o \in ObjetivosNecesarios :
          /\ argumentos' = [SinArgumentos EXCEPT !.objetivo = o]
          /\ retorno' = calcular_medicos_necesarios(o)
    /\ operacion' = "calcular_medicos_necesarios"
    /\ fase' = "retornado"
    /\ UNCHANGED <<medicos_disponibles, ausentismo_pacientes, plan_anterior, distribucion, metricas, error>>

\* InterfazModerna.calcular_demanda: shows int(demanda) for an hour of the
\* operating window, an error box for any other hour.
CalcularDemanda ==
    /\ fase = "listo"
    /\ \E h \in HorasConsulta :
          /\ argumentos' = [SinArgumentos EXCEPT !.hora = h]
          /\ IF 6 <= h /\ h <= 22
             THEN /\ retorno' = Max(0, demanda_cuadratica(h, ausentismo_pacientes)) \div 20
                  /\ error' = ""
             ELSE /\ retorno' = 0
                  /\ error' = "La hora debe estar entre 6 y 22"
    /\ operacion' = "calcular_demanda"
    /\ fase' = "retornado"
    /\ UNCHANGED <<medicos_disponibles, ausentismo_pacientes, plan_anterior, distribucion, metricas>>

\* Variant: the plan build leaves the cap of the engine lowered to 10.
LlamarOptimizarDistribucionDiaria_ajusta_tope ==
    /\ fase = "listo"
    /\ IF optimizar_falla(medicos_disponibles)
       THEN /\ distribucion' = <<>>
            /\ error' = "ZeroDivisionError"
       ELSE /\ distribucion' = optimizar_distribucion_diaria(ausentismo_pacientes, medicos_disponibles)
            /\ error' = ""
    /\ operacion' = "optimizar_distribucion_diaria"
    /\ fase' = "retornado"
    /\ medicos_disponibles' = Min(medicos_disponibles, 10)
    /\ UNCHANGED <<ausentismo_pacientes, plan_anterior, argumentos, retorno, metricas>>

LlamarOptimizarDistribucionDiaria ==
    /\ fase = "listo"
    /\ IF optimizar_falla(medicos_disponibles)
       THEN /\ distribucion' = <<>>
            /\ error' = "ZeroDivisionError"
       ELSE /\ distribucion' = optimizar_distribucion_diaria(ausentismo_pacientes, medicos_disponibles)
            /\ error' = ""
    /\ operacion' = "optimizar_distribucion_diaria"
    /\ fase' = "retornado"
    /\ UNCHANGED <<medicos_disponibles, ausentismo_pacientes, plan_anterior, argumentos, retorno, metricas>>

LlamarGenerarReporteOptimizacion ==
    /\ fase = "listo"
    /\ IF optimizar_falla(medicos_disponibles)
       THEN /\ distribucion' = <<>>
            /\ metricas' = SinMetricas
            /\ error' = "ZeroDivisionError"
       ELSE /\ distribucion' = optimizar_distribucion_diaria(ausentismo_pacientes, medicos_disponibles)
            /\ metricas' = Metricas(distribucion', medicos_disponibles)
            /\ error' = ""
    /\ operacion' = "generar_reporte_optimizacion"
    /\ fase' = "retornado"
    /\ UNCHANGED <<medicos_disponibles, ausentismo_pacientes, plan_anterior, argumentos, retorno>>

\* InterfazModerna.actualizar_graficas: writes the control's value into the
\* engine and annotates the demand of the selected hour.
ActualizarGraficas ==
    /\ fase = "listo"
    /\ \E valor \in ValoresAusentismo, hora \in Horas :
          /\ ausentismo_pacientes' = valor
          /\ argumentos' = [SinArgumentos EXCEPT !.hora = hora]
          /\ retorno' = demanda_cuadratica(hora, valor) \div 20
    /\ operacion' = "actualizar_graficas"
    /\ fase' = "retornado"
    /\ plan_anterior' = <<>>
    /\ UNCHANGED <<medicos_disponibles, distribucion, metricas, error>>

\* InterfazModerna.mostrar_graficas_expandido: applies the control's value to
\* the engine and draws the same two charts in a new window.
MostrarGraficasExpandido ==
    /\ fase = "listo"
    /\ \E valor \in ValoresAusentismo, hora \in Horas :
          /\ ausentismo_pacientes' = valor
          /\ argumentos' = [SinArgumentos EXCEPT !.hora = hora]
          /\ retorno' = demanda_cuadratica(hora, valor) \div 20
    /\ operacion' = "mostrar_graficas_expandido"
    /\ fase' = "retornado"
    /\ plan_anterior' = <<>>
    /\ UNCHANGED <<medicos_disponibles, distribucion, metricas, error>>

\* main(), first statement of the try block: app = InterfazModerna() builds a
\* new engine, and crear_tab_graficas ends in actualizar_graficas(), which
\* writes the control's initial value 35 into it.
MainConstruir ==
    /\ fase = "listo"
    /\ fase' = "construida"
    /\ operacion' = "main"
    /\ medicos_disponibles' = medicos_disponibles_inicial
    /\ ausentismo_pacientes' = ausentismo_inicial
    /\ plan_anterior' = <<>>
    /\ UNCHANGED <<argumentos, retorno, distribucion, metricas, error>>

\* main(), second statement: app.ejecutar() names a method InterfazModerna
\* does not have; the AttributeError is caught by the except clause, which
\* prints "Error al iniciar la aplicación" and main returns.
MainEjecutar ==
    /\ fase = "construida"
    /\ fase' = "retornado"
    /\ error' = "Error al iniciar la aplicación"
    /\ UNCHANGED <<medicos_disponibles, ausentismo_pacientes, plan_anterior, operacion,
                   argumentos, retorno, distribucion, metricas>>

\* The caller takes the result; the engine is ready for the next call.
Retornar ==
    /\ fase = "retornado"
    /\ fase' = "listo"
    /\ operacion' = "ninguna"
    /\ argumentos' = SinArgumentos
    /\ retorno' = 0
    /\ distribucion' = <<>>
    /\ metricas' = SinMetricas
    /\ error' = ""
    /\ plan_anterior' = IF operacion = "optimizar_distribucion_diaria" /\ error = ""
                        THEN distribucion ELSE plan_anterior
    /\ UNCHANGED <<medicos_disponibles, ausentismo_pacientes>>

Next ==
    \/ LlamarDemandaRealista
    \/ LlamarDemandaCuadratica
    \/ LlamarTiempoEsperaInverso
    \/ LlamarCalcularMedicosNecesarios
    \/ CalcularDemanda
    \/ LlamarTiempoEsperaRealista
    \/ LlamarCalcularMedicosOptimosRealista
    \/ LlamarOptimizarDistribucionDiaria
    \/ LlamarGenerarReporteOptimizacion
    \/ ActualizarGraficas
    \/ MostrarGraficasExpandido
    \/ MainConstruir
    \/ MainEjecutar
    \/ Retornar

Spec == Init /\ [][Next]_vars

(***************************************************************************)
(* Properties                                                              *)
(***************************************************************************)
EsEspera == fase = "retornado" /\ operacion = "tiempo_espera_realista"
EsBusqueda == fase = "retornado" /\ operacion = "calcular_medicos_optimos_realista"
EsPlan == /\ fase = "retornado"
          /\ operacion \in {"optimizar_distribucion_diaria", "generar_reporte_optimizacion"}
          /\ error = ""
EsReporte == fase = "retornado" /\ operacion = "generar_reporte_optimizacion" /\ error = ""

\* the staff counts the search of the returned call scanned at most
Candidatos == 1..(LimiteBusqueda(argumentos.demanda) - 1)

EsperaDe(medicos) == tiempo_espera_realista(medicos, argumentos.demanda, argumentos.tipo)

\* the sum of the per-type medicos of an hour record, before any adjustment
MedicosSinAjuste(r) ==
    LET de(t) == IF t \in DOMAIN r.distribucion_tipos
                 THEN r.distribucion_tipos[t].medicos ELSE 0
    IN  de("emergencia") + de("especializada") + de("general")

Registros == {distribucion[i] : i \in 1..Len(distribucion)}

\* C1: tiempo_espera_realista is non-increasing in the staff count: for a
\* returned wait of s1 >= 1 doctors, no larger staff count s2 of the same
\* demand and type has a longer wait.
C1_EsperaNoCreciente ==
    (EsEspera /\ argumentos.medicos >= 1) =>
        \A s2 \in (argumentos.medicos + 1)..(MaxMedicos + 1) : EsperaDe(s2) <= retorno

\* C2: whenever some scanned staff count meets the target, the staff count
\* returned by calcular_medicos_optimos_realista meets the target.
C2_BusquedaAlcanzaObjetivo ==
    (EsBusqueda /\ \E c \in Candidatos : EsperaDe(c) <= argumentos.objetivo) =>
        EsperaDe(retorno) <= argumentos.objetivo

\* C3: in the default configuration (4318 doctors, no-show 0.35) every
\* consultation type recorded in every hour of the plan has a wait of at most
\* 2.0 hours at its assigned medicos.
C3_PlanBajoObjetivo ==
    (EsPlan /\ medicos_disponibles = medicos_disponibles_inicial
            /\ ausentismo_pacientes = ausentismo_inicial) =>
        \A r \in Registros : \A t \in DOMAIN r.distribucion_tipos :
            r.distribucion_tipos[t].tiempo_espera <= 2000000

\* C4: in every hour record es_factible is true if and only if the summed
\* per-type medicos (the requirement before clamping) is at most
\* medicos_disponibles.
C4_FactibleSiRequeridoCabe ==
    EsPlan => \A r \in Registros :
        r.es_factible <=> (MedicosSinAjuste(r) <= medicos_disponibles)

\* C5: in every hour record of every returned plan, for every staff cap,
\* medicos_asignados <= medicos_disponibles.
C5_AsignadosBajoTope ==
    EsPlan => \A r \in Registros : r.medicos_asignados <= medicos_disponibles

\* C5 witness: a returned plan with an hour whose summed requirement exceeds
\* the cap.
C5_Testigo ==
    /\ EsPlan
    /\ \E r \in Registros : /\ MedicosSinAjuste(r) > medicos_disponibles
                            /\ r.medicos_asignados <= medicos_disponibles

\* C6: an hour whose summed per-type staff exceeds the cap is assigned exactly
\* medicos_disponibles; any other hour is assigned the sum of its per-type
\* medicos.
C6_AsignadosTopeOSuma ==
    EsPlan => \A r \in Registros :
        IF MedicosSinAjuste(r) > medicos_disponibles
        THEN r.medicos_asignados = medicos_disponibles
        ELSE r.medicos_asignados = MedicosSinAjuste(r)

\* C6 witness: one returned plan holds an hour clamped to the cap and an hour
\* assigned its summed requirement, below the cap.
C6_Testigo ==
    /\ EsPlan
    /\ \E r \in Registros : /\ MedicosSinAjuste(r) > medicos_disponibles
                            /\ r.medicos_asignados = medicos_disponibles
    /\ \E r \in Registros : /\ MedicosSinAjuste(r) < medicos_disponibles
                            /\ r.medicos_asignados = MedicosSinAjuste(r)

\* C7: in every hour record utilizacion_recursos is the summed requirement
\* over medicos_disponibles, times 100, rounded to one decimal (so above 100
\* in an hour that requires more than the cap).
C7_UtilizacionDelRequerido ==
    EsPlan => \A r \in Registros :
        r.utilizacion_recursos = Redondear1Porcentaje(MedicosSinAjuste(r), medicos_disponibles)

\* C8: deficit_maximo_medicos is the largest (summed requirement - cap) over
\* the hours whose requirement exceeds the cap, and 0 when there is none.
C8_DeficitMaximo ==
    EsReporte =>
        LET excedidos == {r \in Registros : MedicosSinAjuste(r) > medicos_disponibles}
        IN  IF excedidos = {} THEN metricas.deficit_maximo_medicos = 0
            ELSE /\ metricas.deficit_maximo_medicos > 0
                 /\ \E r \in excedidos :
                        metricas.deficit_maximo_medicos = MedicosSinAjuste(r) - medicos_disponibles
                 /\ \A r \in excedidos :
                        MedicosSinAjuste(r) - medicos_disponibles <= metricas.deficit_maximo_medicos

\* C9: round trip: a search whose target is the wait of a staffing level s0
\* (same demand and type) never returns more than s0.
C9_IdaYVuelta ==
    EsBusqueda => \A s0 \in 1..(MaxMedicos + 1) :
        (argumentos.objetivo = EsperaDe(s0)) => (retorno >= 1 /\ retorno <= s0)

\* C9 witness: a search for the wait of some s0 >= 2 inside the scanned range
\* that ran past candidate 1.
C9_Testigo ==
    /\ EsBusqueda
    /\ \E s0 \in 2..MaxMedicos : /\ s0 \in Candidatos
                                 /\ argumentos.objetivo = EsperaDe(s0)
                                 /\ retorno >= 2
                                 /\ retorno <= s0

\* C10 (as stated): when every scanned candidate has a wait above the target,
\* the search returns without error a scanned candidate minimizing
\* |wait - target| over the scanned candidates.
C10_MasCercanoEscaneado ==
    (EsBusqueda /\ \A c \in Candidatos : EsperaDe(c) > argumentos.objetivo) =>
        /\ error = ""
        /\ retorno \in Candidatos
        /\ \A c \in Candidatos :
               Abs(EsperaDe(retorno) - argumentos.objetivo) <= Abs(EsperaDe(c) - argumentos.objetivo)

\* C10 (amended): when at least one candidate is scanned and every scanned
\* candidate has a wait above the target, the search returns without error a
\* scanned candidate minimizing |wait - target|; when nothing is scanned it
\* returns 1.
C10_MasCercanoSiHayCandidatos ==
    (EsBusqueda /\ \A c \in Candidatos : EsperaDe(c) > argumentos.objetivo) =>
        /\ error = ""
        /\ IF Candidatos = {} THEN retorno = 1
           ELSE /\ retorno \in Candidatos
                /\ \A c \in Candidatos :
                       Abs(EsperaDe(retorno) - argumentos.objetivo)
                           <= Abs(EsperaDe(c) - argumentos.objetivo)

\* C10 witness: an exhausted scan of several candidates, none reaching the
\* target, that returned a candidate other than the first.
C10_Testigo ==
    /\ EsBusqueda
    /\ Cardinality(Candidatos) >= 3
    /\ \A c \in Candidatos : EsperaDe(c) > argumentos.objetivo
    /\ retorno > 1
    /\ \E c \in Candidatos :
           Abs(EsperaDe(retorno) - argumentos.objetivo) < Abs(EsperaDe(c) - argumentos.objetivo)

EsInverso == fase = "retornado" /\ operacion = "tiempo_espera_inverso"
EsNecesarios == fase = "retornado" /\ operacion = "calcular_medicos_necesarios"
EsDemandaRealista == fase = "retornado" /\ operacion = "demanda_realista"
EsDemandaCuadratica == fase = "retornado" /\ operacion = "demanda_cuadratica"
EsCalcularDemanda == fase = "retornado" /\ operacion = "calcular_demanda"
EsLote == /\ fase = "retornado"
          /\ operacion \in {"optimizar_distribucion_diaria", "generar_reporte_optimizacion"}

\* C11: the staff count s returned by calcular_medicos_optimos_realista for a
\* target > 0 is never larger than necessary: no staff count s' with
\* 1 <= s' < s has a wait at or below the target.
C11_NingunMenorAlcanza ==
    (EsBusqueda /\ argumentos.objetivo > 0) =>
        \A s \in 1..(retorno - 1) : EsperaDe(s) > argumentos.objetivo

\* a search that returned at least 3 doctors, the last of them meeting a
\* positive target that the two before it miss
C11_Testigo ==
    /\ EsBusqueda
    /\ argumentos.objetivo > 0
    /\ retorno >= 3
    /\ EsperaDe(retorno) <= argumentos.objetivo
    /\ EsperaDe(retorno - 1) > argumentos.objetivo

\* C12: for every staff count >= 1, every demand >= 0 (whole or fractional)
\* and every type, tiempo_espera_realista returns a wait in [0.1, 12.0] hours.
C12_EsperaEntrePisoYTope ==
    (EsEspera /\ argumentos.medicos >= 1) =>
        (100000 <= retorno /\ retorno <= 12000000)

\* C13: for every staff count <= 0, tiempo_espera_realista and
\* tiempo_espera_inverso return float('inf') as an ordinary value, without
\* an error and never a finite number.
C13_SinMedicosInfinito ==
    ((EsEspera \/ EsInverso) /\ argumentos.medicos <= 0) =>
        (retorno = INF /\ error = "")

\* a wait asked of tiempo_espera_realista for a negative staff count and a
\* positive demand
C13_Testigo ==
    /\ EsEspera
    /\ argumentos.medicos < 0
    /\ argumentos.demanda > 0
    /\ retorno = INF

\* C14: for every hour in 6..22, every weekday, holiday flag and no-show
\* rate, demanda_realista returns an integer >= 1, demanda_cuadratica a value
\* >= 1 (20 twentieths), and the plan's demanda_predicha of every hour is >= 1.
C14_DemandaAlMenos1 ==
    /\ (EsDemandaRealista /\ argumentos.hora \in Horas) => retorno >= 1
    /\ (EsDemandaCuadratica /\ argumentos.hora \in Horas) => retorno >= 20
    /\ EsPlan => \A r \in Registros : r.demanda_predicha >= 1

\* demanda_realista asked for an operating hour on a holiday weekend with
\* every patient a no-show: only the floor keeps the result at 1
C14_Testigo ==
    /\ EsDemandaRealista
    /\ argumentos.hora \in Horas
    /\ argumentos.es_festivo
    /\ argumentos.dia_semana = "domingo"
    /\ ausentismo_pacientes = 100
    /\ retorno = 1

\* C15: a staffing search with a target wait <= 0 is rejected: both
\* calcular_medicos_optimos_realista and calcular_medicos_necesarios report
\* an error and return no staff count.
C15_ObjetivoNoPositivoRechazado ==
    ((EsBusqueda \/ EsNecesarios) /\ argumentos.objetivo <= 0) => error # ""

\* C16: a demand query for an hour outside 6..22 is rejected at every entry
\* point: demanda_realista, demanda_cuadratica and the calculator
\* calcular_demanda produce an error and no demand value.
C16_HoraFueraRechazada ==
    ((EsDemandaRealista \/ EsDemandaCuadratica \/ EsCalcularDemanda)
        /\ argumentos.hora \notin Horas) => error # ""

\* C17: for every staff cap (0 included) and every no-show rate,
\* optimizar_distribucion_diaria and generar_reporte_optimizacion return
\* their result without raising an exception.
C17_LoteTotal ==
    EsLote => error = ""

\* C18: every plan returned by optimizar_distribucion_diaria has exactly 17
\* records, for the hours 6, 7, ..., 22 in ascending order, whether or not an
\* hour's requirement exceeds the staff cap.
C18_PlanCompleto ==
    EsPlan => /\ Len(distribucion) = 17
              /\ \A i \in 1..Len(distribucion) : distribucion[i].hora = i + 5

\* a plan returned by optimizar_distribucion_diaria itself in which the last
\* hour, 22, is on record and some hour requires more than the cap
C18_Testigo ==
    /\ EsPlan
    /\ operacion = "optimizar_distribucion_diaria"
    /\ \E r \in Registros : r.hora = 22
    /\ \E r \in Registros : MedicosSinAjuste(r) > medicos_disponibles

\* C19: metricas.horas_factibles of a report equals the number of records of
\* the report's own distribucion whose es_factible is true.
C19_HorasFactiblesCuenta ==
    EsReporte =>
        metricas.horas_factibles =
            Cardinality({i \in 1..Len(distribucion) : distribucion[i].es_factible})

\* a report over a plan with feasible records, one of them fully utilized
C19_Testigo ==
    /\ EsReporte
    /\ metricas.horas_factibles > 0
    /\ \E r \in Registros : r.es_factible /\ r.utilizacion_recursos = 1000

\* C20: metricas.es_implementable is true exactly when every hour record has
\* es_factible true; on such a plan es_implementable is true and
\* deficit_maximo_medicos is 0.
C20_ImplementableSiTodasFactibles ==
    EsReporte =>
        /\ metricas.es_implementable <=> (\A r \in Registros : r.es_factible)
        /\ (\A r \in Registros : r.es_factible) =>
               (metricas.es_implementable /\ metricas.deficit_maximo_medicos = 0)

\* a report over an all-feasible plan that has critical hours
C20_Testigo ==
    /\ EsReporte
    /\ \A r \in Registros : r.es_factible
    /\ metricas.es_implementable
    /\ metricas.horas_criticas > 0

\* the eight operations of SistemaCitasMedicas
OperacionesMotor ==
    {"demanda_cuadratica", "demanda_realista", "tiempo_espera_inverso",
     "tiempo_espera_realista", "calcular_medicos_necesarios",
     "calcular_medicos_optimos_realista", "optimizar_distribucion_diaria",
     "generar_reporte_optimizacion"}

\* C21: for a fixed hour, weekday and holiday flag, demanda_cuadratica and
\* demanda_realista of one engine instance return the same value before and
\* after every operation of the program (queries, plan builds, reports and
\* the chart refresh of the presentation layer); main is left out, because
\* it builds a new instance.
C21_DemandaDeterminista ==
    [][operacion' # "main" =>
          \A h \in Horas :
             /\ demanda_cuadratica(h, ausentismo_pacientes')
                   = demanda_cuadratica(h, ausentismo_pacientes)
             /\ \A dia \in DiasSemana, festivo \in BOOLEAN :
                   demanda_realista(h, dia, festivo, ausentismo_pacientes')
                      = demanda_realista(h, dia, festivo, ausentismo_pacientes)]_vars

\* B = 0.7 * table[hour] + 0.3 * max(0, -0.5 * hour^2 + 20 * hour - 25), in
\* twentieths of a patient
BaseMezclada(hora) ==
    14 * patrones_demanda_real[hora]
        + 3 * Max(0, a_cuadratica2 * hora * hora + 2 * b_cuadratica * hora + 2 * c_cuadratica)

\* C22: for every hour 6..22 the hourly demand estimate demanda_cuadratica
\* equals max(1, floor(B * weekday_factor * month_factor * (1 - no_show)))
\* with B the blended base; the estimate is asked without a weekday, so
\* both factors are 1, and the result is compared in twentieths.
C22_AusentismoSobreLaMezcla ==
    (EsDemandaCuadratica /\ argumentos.hora \in Horas) =>
        retorno = 20 * Max(1, (BaseMezclada(argumentos.hora) * (100 - ausentismo_pacientes))
                                  \div 2000)

\* C23: no engine operation writes engine state: every step that calls one
\* of the eight operations leaves medicos_disponibles and
\* ausentismo_pacientes as they were (the other attributes are the constant
\* tables and coefficients), and a call of optimizar_distribucion_diaria
\* returns the plan that the previous call returned.
C23_MotorSinEscrituras ==
    /\ [][operacion' \in OperacionesMotor =>
             /\ medicos_disponibles' = medicos_disponibles
             /\ ausentismo_pacientes' = ausentismo_pacientes]_vars
    /\ []((/\ fase = "retornado"
           /\ operacion = "optimizar_distribucion_diaria"
           /\ error = ""
           /\ plan_anterior # <<>>) => distribucion = plan_anterior)

\* a second plan build in a row, on an engine whose no-show rate is not the
\* constructor's, returning the 17 records the first one returned
C23_Testigo ==
    /\ fase = "retornado"
    /\ operacion = "optimizar_distribucion_diaria"
    /\ ausentismo_pacientes # ausentismo_inicial
    /\ Len(plan_anterior) = 17
    /\ distribucion = plan_anterior

\* the wait of the two-regime model, in millionths of an hour, from
\* medicos_efectivos (hundredths), capacidad_real and carga (times 10^4)
EsperaDosRegimenes(medicos_efectivos, capacidad_real, carga) ==
    IF 20 * carga < 19 * capacidad_real
    THEN Max(100000, Cociente(carga, capacidad_real - carga, 8) \div medicos_efectivos)
    ELSE IF carga >= 4 * capacidad_real THEN 12000000
    ELSE Max(100000, Min(12000000,
                         Potencia9(Raiz5(Cociente(carga, capacidad_real, 6), 900000, 1320000))))

\* C24: the wait model has exactly two regimes split at utilization 0.95:
\* below it the wait is max(0.1, (u / (1 - u)) / (0.78 * staff)), at or above
\* it min(12, u^1.8) floored at 0.1, for every staff >= 1 and demand >= 0.
C24_DosRegimenes ==
    (EsEspera /\ argumentos.medicos >= 1) =>
        retorno = EsperaDosRegimenes(
                      argumentos.medicos * (100 - deficit_personal),
                      argumentos.medicos * (100 - deficit_personal)
                          * capacidad_medico_hora * eficiencia_actual,
                      50 * argumentos.demanda * factor_complejidad(argumentos.tipo))

\* sum over the staffed types of share(type) * wait(type), in 10^-8 hours
EsperaPonderada(r) ==
    LET de(t) == IF t \in DOMAIN r.distribucion_tipos
                 THEN tipos_consulta[t].proporcion
                          * tiempo_espera_realista(r.distribucion_tipos[t].medicos,
                                                   20 * r.distribucion_tipos[t].demanda, t)
                 ELSE 0
    IN  de("emergencia") + de("especializada") + de("general")

\* the wait of the capped count for the hour's whole demand, rounded
EsperaConTope(r) ==
    Redondear2(tiempo_espera_realista(medicos_disponibles,
                                      Max(0, demanda_cuadratica(r.hora, ausentismo_pacientes)),
                                      "general"))

\* C25: when the summed per-type staff of an hour exceeds the cap, its
\* tiempo_espera is round(tiempo_espera_realista(medicos_disponibles, total
\* hourly demand, 'general'), 2); otherwise it is the rounded sum over the
\* staffed types of share * wait.
C25_EsperaDeLaHora ==
    EsPlan =>
        \A r \in Registros :
            r.tiempo_espera = IF MedicosSinAjuste(r) > medicos_disponibles
                              THEN EsperaConTope(r)
                              ELSE (EsperaPonderada(r) + 500000) \div 1000000

\* a plan with an hour over the cap whose recorded wait is not the weighted
\* mean of its types, and an hour under the cap
C25_Testigo ==
    /\ EsPlan
    /\ \E r \in Registros : /\ MedicosSinAjuste(r) > medicos_disponibles
                            /\ r.tiempo_espera # (EsperaPonderada(r) + 500000) \div 1000000
    /\ \E r \in Registros : MedicosSinAjuste(r) < medicos_disponibles

\* C26: with the default no-show rate 0.35 the report's peak hour is 16 and
\* not the original model's 20: demanda_maxima is the largest
\* demanda_predicha of the 17 hours, reached at hour 16 only,
\* diferencia_horas is 4 and patron_demanda_corregido is true.
C26_HoraPico16 ==
    (EsReporte /\ ausentismo_pacientes = ausentismo_inicial) =>
        /\ metricas.hora_pico = 16
        /\ Len(distribucion) = 17
        /\ \A r \in Registros :
               /\ r.demanda_predicha <= metricas.demanda_maxima
               /\ (r.demanda_predicha = metricas.demanda_maxima) <=> (r.hora = 16)
        /\ metricas.diferencia_horas = 4
        /\ metricas.patron_demanda_corregido

\* a report of the default configuration, cap 4318 and no-show rate 0.35
C26_Testigo ==
    /\ EsReporte
    /\ ausentismo_pacientes = ausentismo_inicial
    /\ medicos_disponibles = medicos_disponibles_inicial
    /\ metricas.hora_pico = 16
    /\ hora_pico_modelo_original = 20

\* the sum of the demands the hour record gives to the three types
DemandaRepartida(r) ==
    LET de(t) == IF t \in DOMAIN r.distribucion_tipos
                 THEN r.distribucion_tipos[t].demanda ELSE 0
    IN  de("emergencia") + de("especializada") + de("general")

\* C27: in every hour record the demands of the three types sum to at most
\* demanda_predicha and to at least demanda_predicha - 2.
C27_RepartoSinCrearPacientes ==
    EsPlan =>
        \A r \in Registros :
            /\ DemandaRepartida(r) <= r.demanda_predicha
            /\ DemandaRepartida(r) >= r.demanda_predicha - 2

\* a plan with an hour that loses nobody in the split and an hour that loses
\* patients
C27_Testigo ==
    /\ EsPlan
    /\ \E r \in Registros : DemandaRepartida(r) = r.demanda_predicha
    /\ \E r \in Registros : DemandaRepartida(r) < r.demanda_predicha

\* C28: the staff count s returned by calcular_medicos_optimos_realista has
\* 1 <= s <= max(1, min(200, int(3 * demand)) - 1), never exceeds 199, and is
\* 1 for demand 0.
C28_ResultadoAcotado ==
    EsBusqueda =>
        /\ 1 <= retorno
        /\ retorno <= Max(1, Min(200, (3 * argumentos.demanda) \div 20) - 1)
        /\ retorno <= 199
        /\ (argumentos.demanda = 0) => (retorno = 1)

\* a search that returned the last candidate of its range, two or more
C28_Testigo ==
    /\ EsBusqueda
    /\ argumentos.objetivo > 0
    /\ retorno >= 2
    /\ retorno = Min(200, (3 * argumentos.demanda) \div 20) - 1

\* the first candidate from c on whose wait is at or below the target, the
\* last candidate if there is none
RECURSIVE PrimerAlcance(_)
PrimerAlcance(c) ==
    IF c >= LimiteBusqueda(argumentos.demanda) - 1 THEN c
    ELSE IF EsperaDe(c) <= argumentos.objetivo THEN c
    ELSE PrimerAlcance(c + 1)

\* the candidates the loop of the returned search went through
Escaneados == IF Candidatos = {} THEN {} ELSE 1..PrimerAlcance(1)

DiferenciaDe(medicos) == Abs(EsperaDe(medicos) - argumentos.objetivo)

\* C29: when several scanned candidates have the same minimal
\* |wait - target|, calcular_medicos_optimos_realista returns the smallest
\* of them: the returned candidate is scanned, none is closer to the target
\* and every smaller one is farther from it.
C29_EmpateAlMenor ==
    (EsBusqueda /\ Escaneados # {}) =>
        /\ retorno \in Escaneados
        /\ \A c \in Escaneados :
               /\ DiferenciaDe(retorno) <= DiferenciaDe(c)
               /\ (c < retorno) => (DiferenciaDe(c) > DiferenciaDe(retorno))

\* a search in which a larger scanned candidate is exactly as close to the
\* target as the returned one
C29_Testigo ==
    /\ EsBusqueda
    /\ argumentos.objetivo > 0
    /\ retorno \in Escaneados
    /\ \E c \in Escaneados : /\ c > retorno
                             /\ DiferenciaDe(c) = DiferenciaDe(retorno)

\* C30: after main() has constructed InterfazModerna, the application enters
\* the event loop and does not take the error path that prints "Error al
\* iniciar la aplicación": main never returns with that error.
C30_ArranqueSinError ==
    (operacion = "main" /\ fase = "retornado") => error = ""

====
